---- MODULE Spec2Model ----
(***************************************************************************)
(* Model of the debt payoff planner, src/app_debt_strategies.py:           *)
(* order_debts, simulate and the "submitted" handler that runs simulate    *)
(* for the chosen strategy and then for the other one.                     *)
(*                                                                         *)
(* Money is fixed point: one unit is 0.001 currency units, so the         *)
(* program's 0.005 is 5 and a budget of 100.00 is 100000.  An APR is a     *)
(* whole number of percent.  The only inexact operation of the program,    *)
(* balance * apr_pct / 100 / 12, is rounded to the nearest unit.           *)
(* Python lists are 0-based; the sequences here are 1-based, so debt       *)
(* index i of the program is i + 1 here.                                   *)
(***************************************************************************)
EXTENDS Integers, Sequences, FiniteSets, TLC

VARIABLES
    debts_list,        \* the handler's list of Debt records (line 163)
    monthly_budget,    \* the budget entered in the form (line 153)
    strategy_choice,   \* the strategy entered in the form (line 154)
    hpc,               \* where the handler is: "chosen", "other", "shown", "error"
    df_chosen, res_chosen, df_other, res_other,   \* lines 165 and 168
    strategy,          \* simulate's strategy argument
    debts,             \* simulate's private copy of the debts (line 44)
    order,             \* line 60
    month,             \* line 61
    rows,              \* line 62
    total_interest,    \* line 63
    paid_off_month,    \* line 64
    remaining_budget,  \* line 69, as the last month left it
    interests,         \* line 72, of the last month
    pay,               \* line 87, of the last month, per debt (0 for a skipped debt)
    idx,               \* line 95: the debt the last month's waterfall paid, 0 for none
    extra,             \* line 97, of the last month (0 when the waterfall paid nothing)
    payments,          \* line 83, of the last month
    pc,                \* where simulate is: "call", "loop", "raised", "done"
    calls              \* the frames of simulate's calls by other callers than the
                       \* handler: arguments, locals and position of each

vars == <<debts_list, monthly_budget, strategy_choice, hpc, df_chosen, res_chosen,
          df_other, res_other, strategy, debts, order, month, rows, total_interest,
          paid_off_month, remaining_budget, interests, pay, idx, extra, payments, pc,
          calls>>

handlerVars == <<debts_list, monthly_budget, strategy_choice, hpc, df_chosen,
                 res_chosen, df_other, res_other, strategy>>

monthVars == <<remaining_budget, interests, pay, idx, extra, payments>>

-----------------------------------------------------------------------------
(* Program constants *)

\* 0.005, the balance above which a debt counts as unpaid (lines 67, 96, 105)
EPS == 5
\* the safety horizon of the month loop (line 67)
HORIZON == 1200
\* paid_off_month's "not paid off yet" (line 64)
None == -1

Snowball == "Snowball (Smallest Balance First)"
Avalanche == "Avalanche (Highest APR First)"

\* strategy.startswith("Snowball"), lines 35 and 167
StartsWithSnowball(s) == s = Snowball

\* the form's default debt names, "Debt {i+1}" (line 142); at most 12 debts (line 137)
DefaultNames == <<"Debt 1", "Debt 2", "Debt 3", "Debt 4", "Debt 5", "Debt 6",
                  "Debt 7", "Debt 8", "Debt 9", "Debt 10", "Debt 11", "Debt 12">>

-----------------------------------------------------------------------------
(* Pure helpers *)

Min(a, b) == IF a <= b THEN a ELSE b

RECURSIVE SumSeq(_)
SumSeq(s) == IF s = <<>> THEN 0 ELSE s[1] + SumSeq(Tail(s))

\* Debt(name, balance, apr_pct, min_pay), lines 23-28
Debt(name, balance, apr_pct, min_pay) ==
    [name |-> name, balance |-> balance, apr_pct |-> apr_pct, min_pay |-> min_pay]

\* the yearly rate applied every month: the division by 12 left out
Interest_YearlyRate(balance, apr_pct) == (balance * apr_pct + 50) \div 100

\* d.balance * monthly_rate(d.apr_pct), lines 30-31 and 77-78, to the nearest unit
Interest(balance, apr_pct) == (balance * apr_pct + 600) \div 1200

\* round(x, 2): to the nearest cent (10 units), ties to even
Round2(x) ==
    LET q == x \div 10
        r == x % 10
    IN  IF r < 5 THEN 10 * q
        ELSE IF r > 5 THEN 10 * (q + 1)
        ELSE IF q % 2 = 0 THEN 10 * q ELSE 10 * (q + 1)

\* the sort by balance in descending order: the largest balance first
SnowballBefore_Descending(ds, i, j) ==
    \/ ds[i].balance > ds[j].balance
    \/ ds[i].balance = ds[j].balance /\ i < j

\* a sort that places equal balances in reverse input order
SnowballBefore_TiesReversed(ds, i, j) ==
    \/ ds[i].balance < ds[j].balance
    \/ ds[i].balance = ds[j].balance /\ i > j

\* the Snowball sort key with sorted()'s stability: i is placed before j
SnowballBefore(ds, i, j) ==
    \/ ds[i].balance < ds[j].balance
    \/ ds[i].balance = ds[j].balance /\ i < j

\* the sort by rate without reverse=True: the lowest rate first
AvalancheBefore_Ascending(ds, i, j) ==
    \/ ds[i].apr_pct < ds[j].apr_pct
    \/ ds[i].apr_pct = ds[j].apr_pct /\ i < j

\* the ascending sort reversed, which also reverses the equal keys
AvalancheBefore_TiesReversed(ds, i, j) ==
    \/ ds[i].apr_pct > ds[j].apr_pct
    \/ ds[i].apr_pct = ds[j].apr_pct /\ i > j

\* the Avalanche sort key; sorted(reverse=True) keeps equal keys in input order
AvalancheBefore(ds, i, j) ==
    \/ ds[i].apr_pct > ds[j].apr_pct
    \/ ds[i].apr_pct = ds[j].apr_pct /\ i < j

\* order_debts, lines 33-40: the indices in the order to target extra payments
order_debts(ds, strat) ==
    LET n == Len(ds)
        before(i, j) == IF StartsWithSnowball(strat) THEN SnowballBefore(ds, i, j)
                        ELSE AvalancheBefore(ds, i, j)
    IN  [k \in 1..n |->
            CHOOSE i \in 1..n : Cardinality({j \in 1..n : before(j, i)}) = k - 1]

\* the validation without the test of the rate
BadInputs_RateUnchecked(ds, budget) ==
    \/ \E i \in 1..Len(ds) : ds[i].balance < 0 \/ ds[i].min_pay < 0
    \/ budget <= 0

\* the validation without the test of the budget
BadInputs_BudgetUnchecked(ds, budget) ==
    \E i \in 1..Len(ds) :
        ds[i].balance < 0 \/ ds[i].min_pay < 0 \/ ds[i].apr_pct < 0

\* the validation of lines 48-52: some input is negative, or the budget is not > 0
BadInputs(ds, budget) ==
    \/ \E i \in 1..Len(ds) :
          ds[i].balance < 0 \/ ds[i].min_pay < 0 \/ ds[i].apr_pct < 0
    \/ budget <= 0

\* min_sum, line 55
min_sum(ds) == SumSeq([i \in 1..Len(ds) |-> ds[i].min_pay])

\* the pre-check left out
BudgetBelowMinimums_Unchecked(ds, budget) == FALSE

\* the pre-check with its comparison reversed
BudgetBelowMinimums_Reversed(ds, budget) == min_sum(ds) < budget

\* the pre-check of lines 55-57
BudgetBelowMinimums(ds, budget) == min_sum(ds) > budget

\* a balance the loop and the waterfall treat as still unpaid (lines 67 and 96)
Unpaid(balance) == balance > EPS

\* the loop condition with the horizon reached one month late
LoopCondition_OffByOne(ds, m) ==
    Cardinality({i \in 1..Len(ds) : Unpaid(ds[i].balance)}) > 0 /\ m <= HORIZON

\* the loop condition of line 67
LoopCondition(ds, m) ==
    Cardinality({i \in 1..Len(ds) : Unpaid(ds[i].balance)}) > 0 /\ m < HORIZON

\* the interest step with the guard of line 74 inverted
AccruedInterest_GuardInverted(d) ==
    IF d.balance > 0 THEN 0 ELSE Interest(d.balance, d.apr_pct)

\* the interest one debt accrues in step 1, lines 73-80
AccruedInterest(d) == IF d.balance <= 0 THEN 0 ELSE Interest(d.balance, d.apr_pct)

\* the stated minimum set aside for every debt, paid off or not
MinimumPayment_Reserved(d) == d.min_pay

\* the minimum step without the cap at the balance
MinimumPayment_Uncapped(d) == IF d.balance <= 0 THEN 0 ELSE d.min_pay

\* the minimum-step payment of one debt, lines 84-87
MinimumPayment(d) == IF d.balance <= 0 THEN 0 ELSE Min(d.min_pay, d.balance)

\* the waterfall's target, lines 95-96: the position in order of the first debt with
\* balance > 0.005, or 0 when there is none
RECURSIVE FirstUnpaid(_, _, _)
FirstUnpaid(ds, ord, k) ==
    IF k > Len(ord) THEN 0
    ELSE IF Unpaid(ds[ord[k]].balance) THEN ord[k]
    ELSE FirstUnpaid(ds, ord, k + 1)

\* the waterfall walking the debts in input order, not in the target order
Target_InputOrder(ds, ord, rb) ==
    IF rb > 0 THEN FirstUnpaid(ds, [k \in 1..Len(ds) |-> k], 1) ELSE 0

\* the waterfall walking an order that is sorted again on the current balances
Target_Resorted(ds, ord, rb) ==
    IF rb > 0 THEN FirstUnpaid(ds, order_debts(ds, strategy), 1) ELSE 0

\* line 94: the waterfall runs only with budget left
Target(ds, ord, rb) == IF rb > 0 THEN FirstUnpaid(ds, ord, 1) ELSE 0

\* the extra without the cap at the target's balance
Extra_Uncapped(rb, balance) == rb

\* the extra taken from the whole monthly budget, not from what the minimums left
Extra_FromWholeBudget(rb, balance) == Min(monthly_budget, balance)

\* the extra that pays the target down to the threshold only
Extra_DownToEps(rb, balance) == Min(rb, balance - EPS)

\* extra, line 97
Extra(rb, balance) == Min(rb, balance)

\* the last index carrying a name: a dict keyed by name keeps the last write
LastWithName(ds, nm) ==
    CHOOSE i \in 1..Len(ds) :
        /\ ds[i].name = nm
        /\ \A j \in 1..Len(ds) : ds[j].name = nm => j <= i

NamesOf(ds) == {ds[i].name : i \in 1..Len(ds)}

\* the snapshot taken with the month number of before line 68's increment
Snapshot_MonthBefore(ds, m, rb, ti, pays) ==
    <<m - 1, Round2(rb), Round2(ti),
      [nm \in NamesOf(ds) |-> Round2(ds[LastWithName(ds, nm)].balance)],
      [nm \in NamesOf(ds) |-> Round2(pays[LastWithName(ds, nm)])]>>

\* the snapshot of lines 113-120, as the tuple <<Month, Remaining Budget, Total Interest
\* Accrued To Date, the "<name> - Balance" columns, the "<name> - Paid This Month"
\* columns>>; a column is keyed by the debt's name
Snapshot(ds, m, rb, ti, pays) ==
    <<m, Round2(rb), Round2(ti),
      [nm \in NamesOf(ds) |-> Round2(ds[LastWithName(ds, nm)].balance)],
      [nm \in NamesOf(ds) |-> Round2(pays[LastWithName(ds, nm)])]>>

RowMonth(row) == row[1]
RowRemainingBudget(row) == row[2]
RowTotalInterest(row) == row[3]
RowBalance(row) == row[4]
RowPaid(row) == row[5]

\* the result with the months counted from 0
Result_MonthsFromZero(ds, m, ti, pom) ==
    [months |-> IF m = 0 THEN 0 ELSE m - 1,
     total_interest |-> Round2(ti),
     paid_off_months |-> [nm \in NamesOf(ds) |-> pom[LastWithName(ds, nm)]]]

\* the result of lines 124-128
Result(ds, m, ti, pom) ==
    [months |-> m,
     total_interest |-> Round2(ti),
     paid_off_months |-> [nm \in NamesOf(ds) |-> pom[LastWithName(ds, nm)]]]

\* the other strategy with the two branches of line 167 swapped
OtherStrategy_Swapped(choice) == IF StartsWithSnowball(choice) THEN Snowball ELSE Avalanche

\* other_strategy, line 167
OtherStrategy(choice) == IF StartsWithSnowball(choice) THEN Avalanche ELSE Snowball

-----------------------------------------------------------------------------
(* Inputs *)

\* the largest number of debts of the enumerated inputs
MaxDebts == 2

Balances == {0, 3, 400, 1000}
Aprs == {0, 6}
MinPays == {0, 300}
Budgets == {0, 300, 700}

\* debts that pass the validation of line 49, and one debt failing each of its tests
ValidDebts ==
    {[balance |-> b, apr_pct |-> a, min_pay |-> m] : b \in Balances, a \in Aprs, m \in MinPays}
InvalidDebts ==
    {[balance |-> -400, apr_pct |-> 6, min_pay |-> 300],
     [balance |-> 400, apr_pct |-> -6, min_pay |-> 300],
     [balance |-> 400, apr_pct |-> 6, min_pay |-> -300]}

DebtChoices == ValidDebts \cup InvalidDebts

\* the names of a list: the form's defaults, or the first name typed for every debt
NameLists(n) == {[i \in 1..n |-> DefaultNames[i]], [i \in 1..n |-> DefaultNames[1]]}

Named(l, nms) ==
    [i \in 1..Len(l) |-> Debt(nms[i], l[i].balance, l[i].apr_pct, l[i].min_pay)]

\* the scenarios of the specification's section 8, in units of 0.001
ScenarioA == [debts |-> <<Debt("Debt 1", 1200000, 0, 100000)>>, budget |-> 100000]
ScenarioB == [debts |-> <<Debt("Debt 1", 1000000, 12, 20000)>>, budget |-> 20000]
ScenarioC == [debts |-> <<Debt("A", 500000, 25, 20000), Debt("B", 2000000, 5, 40000)>>,
              budget |-> 100000]
ScenarioD == [debts |-> <<Debt("Debt 1", 500000, 10, 50000)>>, budget |-> 40000]
\* budget 100 with minimum payments summing to 150
MinimumsAboveBudget ==
    [debts |-> <<Debt("Debt 1", 500000, 10, 100000), Debt("Debt 2", 800000, 5, 50000)>>,
     budget |-> 100000]
\* a negative budget
NegativeBudget == [debts |-> <<Debt("Debt 1", 400, 6, 300)>>, budget |-> -700]
\* the interest of every month equals the budget: the balance never falls
NeverPaid == [debts |-> <<Debt("D", 1000, 6, 0)>>, budget |-> 5]
\* one unit a month brings 1205 down to 0.005 in exactly 1200 months
PaidAtHorizon == [debts |-> <<Debt("D", 1205, 0, 1)>>, budget |-> 1]

ScenarioInputs ==
    {[debts |-> sc.debts, budget |-> sc.budget, choice |-> s] :
        sc \in {ScenarioA, ScenarioB, ScenarioC, ScenarioD, MinimumsAboveBudget,
                NegativeBudget},
        s \in {Snowball, Avalanche}}
    \cup {[debts |-> sc.debts, budget |-> sc.budget, choice |-> Snowball] :
            sc \in {NeverPaid, PaidAtHorizon}}

-----------------------------------------------------------------------------
(* The program *)

\* the handler is entered with the form's values and calls simulate for the chosen
\* strategy (lines 161-165)
StartWith(ds, budget, choice) ==
    /\ debts_list = ds
    /\ monthly_budget = budget
    /\ strategy_choice = choice
    /\ strategy = choice
    /\ hpc = "chosen"
    /\ df_chosen = <<>> /\ df_other = <<>>
    /\ res_chosen = <<>> /\ res_other = <<>>
    /\ debts = <<>> /\ order = <<>> /\ month = 0 /\ rows = <<>>
    /\ total_interest = 0 /\ paid_off_month = <<>>
    /\ remaining_budget = 0 /\ interests = <<>> /\ pay = <<>>
    /\ idx = 0 /\ extra = 0 /\ payments = <<>>
    /\ pc = "call"

Init ==
    /\ calls = <<>>
    /\ \/ \E n \in 1..MaxDebts : \E l \in [1..n -> DebtChoices] : \E nms \in NameLists(n) :
             \E b \in Budgets : \E s \in {Snowball, Avalanche} :
                StartWith(Named(l, nms), b, s)
       \/ \E inp \in ScenarioInputs : StartWith(inp.debts, inp.budget, inp.choice)

\* line 44: simulate's own copy of the caller's records
CopyDebts(ds) ==
    [i \in 1..Len(ds) |-> Debt(ds[i].name, ds[i].balance, ds[i].apr_pct, ds[i].min_pay)]

\* simulate working on the caller's records themselves, not on a copy
CallerRecords_Aliased(dl, ds) == ds

\* what the caller's list holds after simulate has written to its copy: simulate
\* works on the copy of line 44, so the caller's records are as they were
CallerRecords(dl, ds) == dl

\* the balances of ds replaced by bal
WithBalances(ds, bal) == [i \in 1..Len(ds) |-> [ds[i] EXCEPT !.balance = bal[i]]]

\* the test of line 105 with 0 as the threshold
NewlyPaidOff_ZeroOnly(d, pom) == d.balance <= 0 /\ pom = None

\* the test of line 105 without "is None"
NewlyPaidOff_Remarked(d, pom) == d.balance <= EPS

\* the test of line 105
NewlyPaidOff(d, pom) == d.balance <= EPS /\ pom = None

\* lines 44-57: the copy, then a ValueError, which the handler reports (lines 236-237)
SimulateRaises ==
    /\ pc = "call"
    /\ LET ds == CopyDebts(debts_list)
       IN  /\ BadInputs(ds, monthly_budget) \/ BudgetBelowMinimums(ds, monthly_budget)
           /\ debts' = ds
    /\ pc' = "raised"
    /\ hpc' = "error"
    /\ UNCHANGED <<debts_list, monthly_budget, strategy_choice, df_chosen, res_chosen,
                   df_other, res_other, strategy, order, month, rows, total_interest,
                   paid_off_month, monthVars, calls>>

\* lines 44-64: the copy, the validation passed, the setup
SimulateSetup ==
    /\ pc = "call"
    /\ LET ds == CopyDebts(debts_list)
       IN  /\ ~BadInputs(ds, monthly_budget)
           /\ ~BudgetBelowMinimums(ds, monthly_budget)
           /\ debts' = ds
           /\ order' = order_debts(ds, strategy)
    /\ month' = 0
    /\ rows' = <<>>
    /\ total_interest' = 0
    /\ paid_off_month' = [i \in 1..Len(debts_list) |-> None]
    /\ pc' = "loop"
    /\ UNCHANGED <<handlerVars, monthVars, calls>>

\* one iteration of the loop, lines 67-121: the condition of line 67 holds, then
\* steps 1 to 5 and the snapshot.  Each local is bound once, as \E x \in {value}.
Month ==
    /\ pc = "loop"
    /\ LoopCondition(debts, month)
    /\ \E n \in {Len(debts)} : \E m \in {month + 1} :
       \* 1) accrue interest, lines 71-80
       \E ints \in {[i \in 1..n |-> AccruedInterest(debts[i])]} :
       \E d1 \in {WithBalances(debts, [i \in 1..n |-> debts[i].balance + ints[i]])} :
       \* 2) pay minimums, lines 82-90
       \E pays \in {[i \in 1..n |-> MinimumPayment(d1[i])]} :
       \E d2 \in {WithBalances(d1, [i \in 1..n |-> d1[i].balance - pays[i]])} :
       \E rb2 \in {monthly_budget - SumSeq(pays)} :
       \* 3) the extra to the current target, lines 92-101
       \E t \in {Target(d2, order, rb2)} :
       \E ex \in {IF t = 0 THEN 0 ELSE Extra(rb2, d2[t].balance)} :
       \E d3 \in {IF t = 0 THEN d2 ELSE [d2 EXCEPT ![t].balance = @ - ex]} :
       \E pays3 \in {IF t = 0 THEN pays ELSE [pays EXCEPT ![t] = @ + ex]} :
       \* 4) mark payoffs, lines 103-107
       \E marked \in {{i \in 1..n : NewlyPaidOff(d3[i], paid_off_month[i])}} :
       \E d4 \in {[i \in 1..n |->
                     IF i \in marked THEN [d3[i] EXCEPT !.balance = 0] ELSE d3[i]]} :
       \* 5) tally interest, lines 109-110
       \E ti \in {total_interest + SumSeq(ints)} :
          /\ month' = m
          /\ interests' = ints
          /\ pay' = pays
          /\ idx' = t
          /\ extra' = ex
          /\ payments' = pays3
          /\ remaining_budget' = rb2 - ex
          /\ paid_off_month' = [i \in 1..n |->
                                  IF i \in marked THEN m ELSE paid_off_month[i]]
          /\ debts' = d4
          /\ debts_list' = CallerRecords(debts_list, d4)
          /\ total_interest' = ti
          \* the snapshot, lines 112-121
          /\ rows' = Append(rows, Snapshot(d4, m, rb2 - ex, ti, pays3))
    /\ pc' = "loop"
    /\ UNCHANGED <<monthly_budget, strategy_choice, hpc, df_chosen, res_chosen, df_other,
                   res_other, strategy, order, calls>>

\* lines 67, 123-129 and 165-168: the loop ends and the chosen strategy's run returns;
\* the handler calls simulate for the other strategy on the same list and budget
ReturnChosen ==
    /\ pc = "loop"
    /\ ~LoopCondition(debts, month)
    /\ hpc = "chosen"
    /\ df_chosen' = rows
    /\ res_chosen' = Result(debts, month, total_interest, paid_off_month)
    /\ strategy' = OtherStrategy(strategy_choice)
    /\ hpc' = "other"
    /\ pc' = "call"
    /\ UNCHANGED <<debts_list, monthly_budget, strategy_choice, df_other, res_other,
                   debts, order, month, rows, total_interest, paid_off_month, monthVars,
                   calls>>

\* lines 67, 123-129 and 168-170: the loop ends and the other strategy's run returns;
\* the handler shows both results
ReturnOther ==
    /\ pc = "loop"
    /\ ~LoopCondition(debts, month)
    /\ hpc = "other"
    /\ df_other' = rows
    /\ res_other' = Result(debts, month, total_interest, paid_off_month)
    /\ hpc' = "shown"
    /\ pc' = "done"
    /\ UNCHANGED <<debts_list, monthly_budget, strategy_choice, df_chosen, res_chosen,
                   strategy, debts, order, month, rows, total_interest, paid_off_month,
                   monthVars, calls>>

Next ==
    \/ SimulateRaises
    \/ SimulateSetup
    \/ Month
    \/ ReturnChosen
    \/ ReturnOther

Spec == Init /\ [][Next]_vars

\* the handler entered with one of the scenarios
ScenarioInit ==
    /\ calls = <<>>
    /\ \E inp \in ScenarioInputs : StartWith(inp.debts, inp.budget, inp.choice)

\* the scenarios' runs; the handler is one synchronous computation (lines 161-168),
\* so a step that can be taken is taken
FairScenarioSpec == ScenarioInit /\ [][Next]_vars /\ WF_vars(Next)

-----------------------------------------------------------------------------
(* Calls of simulate by other callers, interleaved with the handler's *)

\* the handler's variables and those of the call it is making
sequentialVars ==
    <<debts_list, monthly_budget, strategy_choice, hpc, df_chosen, res_chosen, df_other,
      res_other, strategy, debts, order, month, rows, total_interest, paid_off_month,
      remaining_budget, interests, pay, idx, extra, payments, pc>>

\* the frame of a call simulate(debts_in, monthly_budget, strategy, extra_rollover) on
\* entry, line 42: the arguments, and the locals of lines 44 and 60-64 not yet set
CallEntered(ds, budget, strat, rollover) ==
    [debts_in |-> ds, monthly_budget |-> budget, strategy |-> strat,
     extra_rollover |-> rollover, pc |-> "call",
     debts |-> <<>>, order |-> <<>>, month |-> 0, rows |-> <<>>, total_interest |-> 0,
     paid_off_month |-> <<>>, df |-> <<>>, result |-> <<>>]

\* one set of simulation state at module level, used by every call
Locals_Shared(cs, k) == cs[1]

\* the state call k works on: every name simulate assigns (lines 44-45, 60-64, 69, 72,
\* 83) is a local of the call, so it is the call's own frame
Locals(cs, k) == cs[k]

\* lines 44-57 of call k: the copy, then a ValueError
InvokeRaises(k) ==
    /\ calls[k].pc = "call"
    /\ \E c \in {Locals(calls, k)} : \E ds \in {CopyDebts(c.debts_in)} :
          /\ BadInputs(ds, c.monthly_budget) \/ BudgetBelowMinimums(ds, c.monthly_budget)
          /\ calls' = [calls EXCEPT ![k] = [c EXCEPT !.debts = ds, !.pc = "raised"]]
    /\ UNCHANGED sequentialVars

\* lines 44-64 of call k: the copy, the validation passed, the setup
InvokeSetup(k) ==
    /\ calls[k].pc = "call"
    /\ \E c \in {Locals(calls, k)} : \E ds \in {CopyDebts(c.debts_in)} :
          /\ ~BadInputs(ds, c.monthly_budget)
          /\ ~BudgetBelowMinimums(ds, c.monthly_budget)
          /\ calls' = [calls EXCEPT ![k] =
                [c EXCEPT !.debts = ds,
                          !.order = order_debts(ds, c.strategy),
                          !.month = 0,
                          !.rows = <<>>,
                          !.total_interest = 0,
                          !.paid_off_month = [i \in 1..Len(ds) |-> None],
                          !.pc = "loop"]]
    /\ UNCHANGED sequentialVars

\* one iteration of the loop of call k, lines 67-121
InvokeMonth(k) ==
    /\ calls[k].pc = "loop"
    /\ \E c \in {Locals(calls, k)} :
       /\ LoopCondition(c.debts, c.month)
       /\ \E n \in {Len(c.debts)} : \E m \in {c.month + 1} :
          \* 1) accrue interest, lines 71-80
          \E ints \in {[i \in 1..n |-> AccruedInterest(c.debts[i])]} :
          \E d1 \in {WithBalances(c.debts, [i \in 1..n |-> c.debts[i].balance + ints[i]])} :
          \* 2) pay minimums, lines 82-90
          \E pays \in {[i \in 1..n |-> MinimumPayment(d1[i])]} :
          \E d2 \in {WithBalances(d1, [i \in 1..n |-> d1[i].balance - pays[i]])} :
          \E rb2 \in {c.monthly_budget - SumSeq(pays)} :
          \* 3) the extra to the current target, lines 92-101
          \E t \in {Target(d2, c.order, rb2)} :
          \E ex \in {IF t = 0 THEN 0 ELSE Extra(rb2, d2[t].balance)} :
          \E d3 \in {IF t = 0 THEN d2 ELSE [d2 EXCEPT ![t].balance = @ - ex]} :
          \E pays3 \in {IF t = 0 THEN pays ELSE [pays EXCEPT ![t] = @ + ex]} :
          \* 4) mark payoffs, lines 103-107
          \E marked \in {{i \in 1..n : NewlyPaidOff(d3[i], c.paid_off_month[i])}} :
          \E d4 \in {[i \in 1..n |->
                        IF i \in marked THEN [d3[i] EXCEPT !.balance = 0] ELSE d3[i]]} :
          \* 5) tally interest, lines 109-110, and the snapshot, lines 112-121
          \E ti \in {c.total_interest + SumSeq(ints)} :
             calls' = [calls EXCEPT ![k] =
                [c EXCEPT !.month = m,
                          !.debts = d4,
                          !.debts_in = CallerRecords(c.debts_in, d4),
                          !.paid_off_month = [i \in 1..n |->
                               IF i \in marked THEN m ELSE c.paid_off_month[i]],
                          !.total_interest = ti,
                          !.rows = Append(c.rows, Snapshot(d4, m, rb2 - ex, ti, pays3))]]
    /\ UNCHANGED sequentialVars

\* lines 67 and 123-129 of call k: the loop ends and the call returns
InvokeReturn(k) ==
    /\ calls[k].pc = "loop"
    /\ \E c \in {Locals(calls, k)} :
          /\ ~LoopCondition(c.debts, c.month)
          /\ calls' = [calls EXCEPT ![k] =
                [c EXCEPT !.df = c.rows,
                          !.result = Result(c.debts, c.month, c.total_interest,
                                            c.paid_off_month),
                          !.pc = "done"]]
    /\ UNCHANGED sequentialVars

\* the debts of DebtChoices that have a minimum payment
BilledDebtChoices == {d \in DebtChoices : d.min_pay # 0}

\* the handler's comparison and two more calls of simulate, each with its own list of
\* the same two debts: one for each strategy, the second with extra_rollover = False
ConcurrentInit ==
    \E l \in [1..2 -> BilledDebtChoices] : \E b \in Budgets :
    \E s \in {Snowball, Avalanche} :
       \E ds \in {Named(l, [i \in 1..2 |-> DefaultNames[i]])} :
          /\ StartWith(ds, b, s)
          /\ calls = <<CallEntered(CopyDebts(ds), b, s, TRUE),
                       CallEntered(CopyDebts(ds), b, OtherStrategy(s), FALSE)>>

\* the steps of the handler and of the other calls in any interleaving
ConcurrentNext ==
    \/ Next
    \/ \E k \in DOMAIN calls : InvokeRaises(k)
    \/ \E k \in DOMAIN calls : InvokeSetup(k)
    \/ \E k \in DOMAIN calls : InvokeMonth(k)
    \/ \E k \in DOMAIN calls : InvokeReturn(k)

ConcurrentSpec == ConcurrentInit /\ [][ConcurrentNext]_vars

-----------------------------------------------------------------------------
(* Properties *)

\* a month of the current run has been simulated
MonthSimulated == pc = "loop" /\ month >= 1

\* debt j's balance of the last month after interest and minimum, before the extra,
\* from the balance before the month (unprimed) and the month's locals (primed)
AfterMinimum(j) == debts[j].balance + interests'[j] - pay'[j]

\* ... and after the extra, before payoffs are marked
AfterExtra(j) == AfterMinimum(j) - (IF idx' = j THEN extra' ELSE 0)

\* simulate has just returned: to the handler's first call, or to its second
JustReturned == (hpc = "other" /\ pc = "call") \/ (hpc = "shown" /\ pc = "done")

\* the result it returned
LastResult == IF hpc = "other" THEN res_chosen ELSE res_other

\* C1: in every simulated month every debt's balance is >= 0 after the minimum
\* payment, after the extra payment and at the end of the month, for any validated
\* input and either strategy.
C1_BalancesNeverNegative ==
    [][pc' = "loop" =>
         \A i \in 1..Len(debts') :
            /\ debts'[i].balance >= 0
            /\ pc = "loop" => AfterMinimum(i) >= 0 /\ AfterExtra(i) >= 0]_vars

\* C1's case: a minimum payment capped at the balance and an extra payment capped at
\* its target's balance, with budget left over
C1_Witness ==
    /\ MonthSimulated
    /\ \E i \in 1..Len(debts) : 0 < pay[i] /\ pay[i] < debts[i].min_pay
    /\ idx # 0 /\ extra > 0 /\ remaining_budget > 0 /\ debts[idx].balance = 0

\* C2: once a debt's payoff month is set it is never changed in a later month, and the
\* debt's balance is exactly 0 from the end of that month on: it accrues no interest
\* and receives no payment afterwards.
C2_PayoffMonthFinal ==
    [][\A i \in 1..Len(paid_off_month) :
         (pc = "loop" /\ paid_off_month[i] # None) =>
            /\ debts[i].balance = 0
            /\ pc' = "loop" =>
                 /\ paid_off_month'[i] = paid_off_month[i]
                 /\ debts'[i].balance = 0
                 /\ interests'[i] = 0
                 /\ payments'[i] = 0]_vars

\* C2's case: a month has been simulated after a debt's payoff month
C2_Witness ==
    /\ MonthSimulated
    /\ \E i \in 1..Len(debts) :
          /\ paid_off_month[i] # None /\ paid_off_month[i] < month
          /\ debts_list[i].balance > EPS

\* C3: in every simulated month the payments of the month (minimums plus extra) sum to
\* at most the monthly budget.
C3_PaidWithinBudget == MonthSimulated => SumSeq(payments) <= monthly_budget

\* C3's case: minimums and an extra payment that together use the whole budget
C3_Witness ==
    /\ MonthSimulated
    /\ \E i \in 1..Len(debts) : pay[i] > 0
    /\ extra > 0
    /\ SumSeq(payments) = monthly_budget

\* C4 as stated: in every simulated month after which some debt is still unpaid
\* (balance above 0.005), the payments of the month sum to exactly the monthly budget
\* and the remaining budget is 0.
C4_BudgetExhaustedWhileUnpaid ==
    (MonthSimulated /\ \E i \in 1..Len(debts) : Unpaid(debts[i].balance))
        => SumSeq(payments) = monthly_budget /\ remaining_budget = 0

\* C4 amended: in every simulated month after which some debt is still unpaid, the
\* budget is fully exhausted unless the month's extra payment cleared its target debt
\* (the extra equalled the target's whole balance): the rest then stays unspent.
C4_ExhaustedUnlessTargetCleared ==
    [][(/\ pc = "loop" /\ pc' = "loop"
        /\ \E i \in 1..Len(debts') : Unpaid(debts'[i].balance)
        /\ ~(idx' # 0 /\ extra' = AfterMinimum(idx')))
         => SumSeq(payments') = monthly_budget /\ remaining_budget' = 0]_vars

\* C4's case: the target of the extra payment is still unpaid after the month, with
\* another debt unpaid too, and nothing is left of the budget
C4_Witness ==
    /\ MonthSimulated
    /\ idx # 0 /\ extra > 0 /\ Unpaid(debts[idx].balance)
    /\ \E j \in 1..Len(debts) : j # idx /\ Unpaid(debts[j].balance)
    /\ remaining_budget = 0

\* C5: when simulate returns at the 1200-month horizon with a balance still above
\* 0.005, its result carries a converged flag, which is false, and reports no payoff
\* month for a debt that is still unpaid.
C5_ConvergedFlagAtHorizon ==
    (/\ JustReturned
     /\ LastResult.months = HORIZON
     /\ \E i \in 1..Len(debts) : Unpaid(debts[i].balance))
      => /\ "converged" \in DOMAIN LastResult
         /\ LastResult.converged = FALSE
         /\ \A i \in 1..Len(debts) :
               Unpaid(debts[i].balance)
                  => LastResult.paid_off_months[debts[i].name] = None

\* the guard of one of the program's steps holds (each step assigns every variable, so
\* the step can then be taken)
StepAvailable ==
    \/ pc = "call"
    \/ pc = "loop" /\ LoopCondition(debts, month)
    \/ pc = "loop" /\ ~LoopCondition(debts, month) /\ hpc \in {"chosen", "other"}

\* C6: simulate always terminates: the month loop runs only while a balance exceeds
\* 0.005 and the month counter is below 1200, so the returned months is at most 1200,
\* and it is 1200 whenever a debt is still unpaid on return.  Termination is the three
\* facts that every iteration adds one to the month counter, that the counter never
\* exceeds 1200, and that the program can take a step until it is done or has raised.
C6_Inv ==
    /\ month <= HORIZON
    /\ pc \in {"done", "raised"} \/ StepAvailable
    /\ JustReturned =>
          /\ LastResult.months <= HORIZON
          /\ (\E i \in 1..Len(debts) : Unpaid(debts[i].balance))
                => LastResult.months = HORIZON

C6_Terminates ==
    /\ [](C6_Inv)
    /\ [][(pc = "loop" /\ pc' = "loop") => month' = month + 1]_vars

\* C6's case: simulate has returned at the horizon with a debt still unpaid
C6_Witness ==
    /\ JustReturned
    /\ LastResult.months = HORIZON
    /\ \E i \in 1..Len(debts) : Unpaid(debts[i].balance)

\* the form's values that the claim names: a negative balance, minimum payment or
\* rate, or a budget <= 0
NegativeOrNoBudget ==
    \/ \E i \in 1..Len(debts_list) :
          \/ debts_list[i].balance < 0
          \/ debts_list[i].min_pay < 0
          \/ debts_list[i].apr_pct < 0
    \/ monthly_budget <= 0

\* C7: if the minimum payments sum to more than the monthly budget, simulate raises
\* before any month is simulated and no snapshot is produced, for any debt set and
\* either strategy.
C7_MinimumsAboveBudgetRejected ==
    min_sum(debts_list) > monthly_budget =>
        /\ pc \in {"call", "raised"}
        /\ pc = "call" => ENABLED SimulateRaises /\ ~ENABLED SimulateSetup
        /\ pc = "raised" => hpc = "error"
        /\ month = 0 /\ rows = <<>> /\ df_chosen = <<>> /\ df_other = <<>>

\* C7's case: simulate has raised on inputs that pass the tests of lines 48-52 and
\* fail the pre-check of lines 55-57
C7_Witness ==
    /\ pc = "raised"
    /\ ~NegativeOrNoBudget
    /\ min_sum(debts_list) > monthly_budget

\* C8: if a debt has a negative balance, minimum payment or rate, or the budget is
\* <= 0, simulate raises before any month is simulated; and whenever simulate has
\* raised there is no snapshot and no result summary.
C8_InvalidInputsRejected ==
    /\ NegativeOrNoBudget =>
          /\ pc \in {"call", "raised"}
          /\ pc = "call" => ENABLED SimulateRaises /\ ~ENABLED SimulateSetup
    /\ pc = "raised" \/ hpc = "error" =>
          /\ pc = "raised" /\ hpc = "error"
          /\ month = 0 /\ rows = <<>> /\ df_chosen = <<>> /\ df_other = <<>>
          /\ DOMAIN res_chosen = {} /\ DOMAIN res_other = {}

\* C8's case: simulate has raised on a budget <= 0 or a negative input, with the
\* minimums within the budget
C8_Witness ==
    /\ pc = "raised"
    /\ NegativeOrNoBudget
    /\ min_sum(debts_list) <= monthly_budget

\* C9: under Snowball, in every month in which an extra payment is made, the debt
\* that receives it is, among the debts unpaid at that point (balance above 0.005
\* after the month's interest and minimums), the one with the smallest original
\* balance, and among equal original balances the one listed first.
C9_SnowballTarget ==
    [][(pc = "loop" /\ pc' = "loop" /\ StartsWithSnowball(strategy) /\ extra' > 0) =>
         LET unpaid == {j \in 1..Len(debts) : Unpaid(AfterMinimum(j))}
         IN  /\ idx' \in unpaid
             /\ \A j \in unpaid :
                   \/ debts_list[idx'].balance < debts_list[j].balance
                   \/ debts_list[idx'].balance = debts_list[j].balance /\ idx' <= j]_vars

\* C9's case: under Snowball the extra went to the first of two debts with equal
\* original balances, the second being unpaid as well
C9_Witness ==
    /\ MonthSimulated /\ StartsWithSnowball(strategy)
    /\ Len(debts) >= 2
    /\ extra > 0 /\ idx = 1
    /\ debts_list[1].balance = debts_list[2].balance
    /\ Unpaid(debts[2].balance)

\* C10: under Avalanche, in every month in which an extra payment is made, the debt
\* that receives it is, among the debts unpaid at that point, the one with the highest
\* APR, and among equal APRs the one listed first.
C10_AvalancheTarget ==
    [][(pc = "loop" /\ pc' = "loop" /\ ~StartsWithSnowball(strategy) /\ extra' > 0) =>
         LET unpaid == {j \in 1..Len(debts) : Unpaid(AfterMinimum(j))}
         IN  /\ idx' \in unpaid
             /\ \A j \in unpaid :
                   \/ debts_list[idx'].apr_pct > debts_list[j].apr_pct
                   \/ debts_list[idx'].apr_pct = debts_list[j].apr_pct /\ idx' <= j]_vars

\* C10's case: under Avalanche the extra went to the first of two debts with equal
\* APRs, the second being unpaid as well and having the smaller balance
C10_Witness ==
    /\ MonthSimulated /\ ~StartsWithSnowball(strategy)
    /\ Len(debts) >= 2
    /\ extra > 0 /\ idx = 1
    /\ debts_list[1].apr_pct = debts_list[2].apr_pct
    /\ debts_list[2].balance < debts_list[1].balance
    /\ Unpaid(debts[2].balance)

\* debt i's name is the name of no other debt of the list
NameUnique(ds, i) == \A j \in 1..Len(ds) : ds[j].name = ds[i].name => j = i

\* C11: the simulator tolerates duplicate debt names: when debts share a name the
\* result still reports a payoff month for each debt, and every snapshot still has a
\* balance entry and an amount-paid entry for each debt.
C11_DuplicateNamesTolerated ==
    /\ \A k \in 1..Len(rows) :
          /\ Cardinality(DOMAIN RowBalance(rows[k])) = Len(debts)
          /\ Cardinality(DOMAIN RowPaid(rows[k])) = Len(debts)
    /\ JustReturned => Cardinality(DOMAIN LastResult.paid_off_months) = Len(debts)

\* C12: a debt whose balance is 0 at the start is treated as already paid off: its
\* reported payoff month is 0, and in every simulated month it accrues no interest,
\* receives no payment and is not the waterfall's target.
C12_ZeroBalancePaidAtMonthZero ==
    \A i \in 1..Len(debts_list) :
        debts_list[i].balance = 0 =>
            /\ MonthSimulated => interests[i] = 0 /\ payments[i] = 0 /\ idx # i
            /\ (JustReturned /\ NameUnique(debts_list, i)) =>
                  LastResult.paid_off_months[debts_list[i].name] = 0

\* the cumulative interest of the last snapshot, 0 when there is none
LastRowInterest(rs) == IF rs = <<>> THEN 0 ELSE RowTotalInterest(rs[Len(rs)])

\* C13: the cumulative interest total starts at 0, is never negative, and is
\* non-decreasing from each simulated month to the next: each month adds the sum of
\* the month's per-debt interest, each of which is >= 0.  The same holds of the
\* total the snapshots record.
C13_InterestNonDecreasing ==
    [][/\ (pc = "call" /\ pc' = "loop") => total_interest' = 0
       /\ (pc = "loop" /\ pc' = "loop") =>
             /\ \A i \in 1..Len(interests') : interests'[i] >= 0
             /\ total_interest' = total_interest + SumSeq(interests')
             /\ total_interest' >= total_interest
             /\ total_interest >= 0
             /\ LastRowInterest(rows') >= LastRowInterest(rows)
             /\ LastRowInterest(rows) >= 0]_vars

\* C13's case: interest has accrued in two months at least, one debt accruing none
\* in the last of them
C13_Witness ==
    /\ MonthSimulated /\ month >= 2
    /\ SumSeq(interests) > 0
    /\ total_interest > SumSeq(interests)
    /\ \E i \in 1..Len(debts) : interests[i] = 0

\* both strategies target the debts of ds in the same order
SameOrder(ds) == order_debts(ds, Snowball) = order_debts(ds, Avalanche)

\* C14: simulate does not mutate the caller's debt records, so the two runs of a
\* comparison are independent: the second run starts from the original balances, with
\* nothing left of the first run, and returns exactly what it would return if run
\* alone; where both strategies order the debts alike that is what the first run
\* returned.
C14_RunsIndependent ==
    [][/\ debts_list' = debts_list
       /\ (hpc = "other" /\ pc = "call" /\ pc' = "loop") =>
             /\ debts' = debts_list
             /\ month' = 0 /\ rows' = <<>> /\ total_interest' = 0
             /\ \A i \in 1..Len(debts_list) : paid_off_month'[i] = None
       /\ (hpc = "other" /\ hpc' = "shown" /\ SameOrder(debts_list)) =>
             /\ df_other' = df_chosen
             /\ res_other' = res_chosen]_vars

\* C14's case: both runs have returned the same several months for two debts that
\* were unpaid at the start and that both strategies order alike
C14_Witness ==
    /\ hpc = "shown"
    /\ Len(debts_list) >= 2 /\ SameOrder(debts_list)
    /\ \A i \in 1..Len(debts_list) : Unpaid(debts_list[i].balance)
    /\ res_chosen.months >= 2
    /\ res_other = res_chosen /\ df_other = df_chosen

\* the snapshots simulate has just returned
LastDf == IF hpc = "other" THEN df_chosen ELSE df_other

\* C16: snapshots form an append-only sequence in month order: the first is for
\* month 1, the k-th has month number k, each simulated month appends exactly one and
\* leaves the earlier ones as they were, and the number of snapshots returned equals
\* the returned months.
C16_Inv ==
    /\ pc = "loop" =>
          /\ Len(rows) = month
          /\ \A k \in 1..Len(rows) : RowMonth(rows[k]) = k
    /\ JustReturned =>
          /\ Len(LastDf) = LastResult.months
          /\ \A k \in 1..Len(LastDf) : RowMonth(LastDf[k]) = k

C16_SnapshotsAppendOnly ==
    /\ [](C16_Inv)
    /\ [][/\ (pc = "loop" /\ pc' = "loop") =>
                /\ Len(rows') = Len(rows) + 1
                /\ SubSeq(rows', 1, Len(rows)) = rows
                /\ RowMonth(rows'[Len(rows')]) = month'
          /\ (pc = "loop" /\ pc' # "loop") => rows' = rows /\ LastDf' = rows
          /\ hpc \in {"other", "shown"} => df_chosen' = df_chosen]_vars

\* C16's case: simulate has returned three snapshots or more
C16_Witness ==
    /\ JustReturned
    /\ Len(LastDf) >= 3
    /\ LastResult.months = Len(LastDf)

\* the handler was entered with a scenario's debts and budget
IsScenario(sc) == debts_list = sc.debts /\ monthly_budget = sc.budget

\* C17: scenario A (one debt, balance 1200, APR 0%, minimum 100, budget 100)
\* converges in exactly 12 months with total interest 0, under either strategy.
C17_ScenarioA ==
    (IsScenario(ScenarioA) /\ JustReturned) =>
        /\ LastResult.months = 12
        /\ LastResult.total_interest = 0
        /\ total_interest = 0
        /\ LastResult.paid_off_months["Debt 1"] = 12
        /\ \A i \in 1..Len(debts) : debts[i].balance = 0

\* C17's case: both runs of scenario A have returned
C17_Witness ==
    /\ IsScenario(ScenarioA)
    /\ hpc = "shown"
    /\ res_chosen.months = 12 /\ res_other.months = 12

\* C18: scenario B (one debt, balance 1000, APR 12%, minimum 20, budget 20): interest
\* accrues in every simulated month, that is in every month until payoff; the run
\* returns before the 1200-month horizon with the balance at 0, and its total
\* interest is strictly positive.
C18_Inv ==
    (IsScenario(ScenarioB) /\ JustReturned) =>
        /\ LastResult.months < HORIZON
        /\ LastResult.paid_off_months["Debt 1"] = LastResult.months
        /\ \A i \in 1..Len(debts) : debts[i].balance = 0
        /\ LastResult.total_interest > 0

C18_ScenarioB ==
    /\ [](C18_Inv)
    /\ [][(IsScenario(ScenarioB) /\ pc = "loop" /\ pc' = "loop") =>
             /\ interests'[1] > 0
             /\ total_interest' > total_interest]_vars
    /\ (IsScenario(ScenarioB) /\ pc = "call") ~>
          (IsScenario(ScenarioB) /\ JustReturned /\ debts[1].balance = 0)

\* C18's case: scenario B has returned after more than the 50 months that the
\* minimum of 20 would need for 1000 without interest
C18_Witness ==
    /\ IsScenario(ScenarioB)
    /\ JustReturned
    /\ LastResult.months > 50 /\ LastResult.months < HORIZON
    /\ LastResult.total_interest > 0

\* C19 as stated: scenario C (A: balance 500, APR 25%, minimum 20; B: balance 2000,
\* APR 5%, minimum 40; budget 100) under Avalanche: in every month up to and including
\* the month in which A (debt 1) is paid off, B (debt 2) receives no payment above its
\* minimum; an extra payment goes to B only in strictly later months.
C19_ScenarioC_AFirst ==
    (/\ IsScenario(ScenarioC) /\ ~StartsWithSnowball(strategy)
     /\ MonthSimulated
     /\ paid_off_month[1] = None \/ paid_off_month[1] = month) =>
        /\ idx # 2
        /\ payments[2] = pay[2]
        /\ payments[2] <= debts_list[2].min_pay

\* C19 amended: in scenario C under Avalanche, B receives no payment above its
\* minimum in any month before the month in which A is paid off; an extra payment goes
\* to B only once A's balance is at most 0.005 at that point of the month, that is in
\* A's payoff month (when the month's minimum payment has cleared A) or later.
C19_ExtraToBOnceAIsPaid ==
    [][(/\ IsScenario(ScenarioC) /\ ~StartsWithSnowball(strategy)
        /\ pc = "loop" /\ pc' = "loop") =>
          /\ paid_off_month'[1] = None =>
                /\ idx' # 2
                /\ payments'[2] = pay'[2]
                /\ payments'[2] <= debts_list[2].min_pay
          /\ (idx' = 2 /\ extra' > 0) =>
                /\ ~Unpaid(AfterMinimum(1))
                /\ paid_off_month'[1] # None
                /\ paid_off_month'[1] <= month']_vars

\* C19's case: under Avalanche B receives an extra payment in the month in which A
\* is paid off, A having received the extra payment of the month before
C19_Witness ==
    /\ IsScenario(ScenarioC) /\ ~StartsWithSnowball(strategy)
    /\ MonthSimulated
    /\ idx = 2 /\ extra > 0
    /\ paid_off_month[1] = month
    /\ month >= 2

\* the results of the two runs of a comparison, by strategy
AvalancheResult == IF StartsWithSnowball(strategy_choice) THEN res_other ELSE res_chosen
SnowballResult == IF StartsWithSnowball(strategy_choice) THEN res_chosen ELSE res_other

\* C20 as stated: for scenario C, A's payoff month under Avalanche is strictly
\* earlier than A's payoff month under Snowball on the same inputs, the two being
\* equal only if A is paid off in the very first month.
C20_AvalancheEarlierForA ==
    (IsScenario(ScenarioC) /\ hpc = "shown") =>
        /\ AvalancheResult.paid_off_months["A"] # None
        /\ SnowballResult.paid_off_months["A"] # None
        /\ \/ AvalancheResult.paid_off_months["A"] < SnowballResult.paid_off_months["A"]
           \/ /\ AvalancheResult.paid_off_months["A"] = SnowballResult.paid_off_months["A"]
              /\ AvalancheResult.paid_off_months["A"] = 1

\* C20 amended: for scenario C, A's payoff month under Avalanche is not later than
\* A's payoff month under Snowball; on these inputs the two are equal, month 10 in
\* both runs, because A has the higher APR and the smaller balance and so is the
\* first target of both strategies.
C20_AvalancheNotLaterForA ==
    (IsScenario(ScenarioC) /\ hpc = "shown") =>
        /\ AvalancheResult.paid_off_months["A"] # None
        /\ SnowballResult.paid_off_months["A"] # None
        /\ AvalancheResult.paid_off_months["A"] <= SnowballResult.paid_off_months["A"]
        /\ AvalancheResult.paid_off_months["A"] = 10
        /\ SnowballResult.paid_off_months["A"] = 10
        /\ order_debts(debts_list, Avalanche) = order_debts(debts_list, Snowball)

\* C20's case: both runs of scenario C have returned, each with a payoff month for A
\* that is not the first month
C20_Witness ==
    /\ IsScenario(ScenarioC) /\ hpc = "shown"
    /\ AvalancheResult.paid_off_months["A"] > 1
    /\ SnowballResult.paid_off_months["A"] > 1
    /\ AvalancheResult.paid_off_months["B"] = AvalancheResult.months

\* the position of debt i in the target order
PositionIn(ord, i) == CHOOSE k \in 1..Len(ord) : ord[k] = i

\* what the minimums of the last month left of the budget, line 94
AfterMinimums == monthly_budget - SumSeq(pay')

\* C22: in every simulated month at most one debt receives a payment above its
\* minimum-step payment: the waterfall gives min(remaining budget, balance) to the
\* first debt in the target order whose balance exceeds 0.005 and then stops, even
\* if budget remains and other debts are unpaid.
C22_OneExtraPerMonth ==
    [][(pc = "loop" /\ pc' = "loop") =>
         LET above == {i \in 1..Len(debts) : payments'[i] > pay'[i]}
             unpaid == {i \in 1..Len(debts) : Unpaid(AfterMinimum(i))}
         IN  /\ Cardinality(above) <= 1
             /\ above \subseteq {idx'}
             /\ \A i \in 1..Len(debts) : i # idx' => payments'[i] = pay'[i]
             /\ idx' = 0 <=> (AfterMinimums <= 0 \/ unpaid = {})
             /\ idx' # 0 =>
                   /\ idx' \in unpaid
                   /\ \A j \in unpaid : PositionIn(order, idx') <= PositionIn(order, j)
                   /\ extra' = Min(AfterMinimums, AfterMinimum(idx'))
                   /\ payments'[idx'] = pay'[idx'] + extra'
                   /\ remaining_budget' = AfterMinimums - extra']_vars

\* C22's case: the extra payment cleared its target and the waterfall stopped with
\* budget left over while a debt later in the order is still unpaid
C22_Witness ==
    /\ MonthSimulated
    /\ idx # 0 /\ extra > 0 /\ debts[idx].balance = 0
    /\ remaining_budget > 0
    /\ \E j \in 1..Len(debts) :
          /\ Unpaid(debts[j].balance)
          /\ PositionIn(order, idx) < PositionIn(order, j)
          /\ payments[j] = pay[j]

\* C23: in the pay-minimums step of every month each debt with balance > 0 is paid
\* exactly min(min_pay, balance after the month's interest): a debt whose balance is
\* smaller than its minimum is paid exactly its remaining balance, and a debt with
\* balance 0 is paid nothing.
C23_MinimumStep ==
    [][(pc = "loop" /\ pc' = "loop") =>
         \A i \in 1..Len(debts) :
            LET owed == debts[i].balance + interests'[i]
            IN  /\ owed > 0 => pay'[i] = Min(debts[i].min_pay, owed)
                /\ (owed > 0 /\ owed < debts[i].min_pay) => pay'[i] = owed
                /\ owed <= 0 => pay'[i] = 0
                /\ debts[i].balance = 0 => pay'[i] = 0 /\ payments'[i] = 0]_vars

\* C23's case: in one month a debt owing less than its minimum is paid what it owes
\* by the minimum step, a debt paid off earlier is paid nothing, and a third debt is
\* paid its full minimum
C23_Witness ==
    /\ MonthSimulated
    /\ \E i \in 1..Len(debts) :
          /\ pay[i] > 0 /\ pay[i] < debts[i].min_pay
          /\ paid_off_month[i] = month /\ idx # i
    /\ \E i \in 1..Len(debts) :
          /\ debts[i].min_pay > 0 /\ pay[i] = 0
          /\ paid_off_month[i] # None /\ paid_off_month[i] < month

\* C24: in every simulated month interest is accrued before any payment: for each
\* debt with balance > 0 the amount balance * apr_pct / 100 / 12 is added to its
\* balance, and the minimum and the extra payment are computed on the increased
\* balance; a debt whose balance is 0 accrues no interest.
C24_InterestBeforePayments ==
    [][(pc = "loop" /\ pc' = "loop") =>
         \A i \in 1..Len(debts) :
            LET owed == debts[i].balance + interests'[i]
            IN  /\ debts[i].balance > 0 =>
                      interests'[i] = (debts[i].balance * debts[i].apr_pct + 600) \div 1200
                /\ debts[i].balance = 0 => interests'[i] = 0
                /\ pay'[i] = IF owed > 0 THEN Min(debts[i].min_pay, owed) ELSE 0
                /\ idx' = i => extra' = Min(AfterMinimums, owed - pay'[i])
                /\ owed - payments'[i] >= 0
                /\ debts'[i].balance =
                      IF owed - payments'[i] <= EPS THEN 0 ELSE owed - payments'[i]]_vars

\* C24's case: in the first month a debt is paid its original balance and the
\* month's interest on it, in part by the minimum and in part by the extra
C24_Witness ==
    /\ MonthSimulated /\ month = 1
    /\ \E i \in 1..Len(debts) :
          /\ interests[i] > 0
          /\ idx = i /\ extra > 0 /\ pay[i] > 0
          /\ payments[i] = debts_list[i].balance + interests[i]

\* C25: the target order is computed once from the month-0 debt values and is the
\* same in every simulated month: it is never sorted again as balances change (under
\* Snowball a debt keeps its priority even after another debt's current balance has
\* become smaller), and paid-off debts are skipped in place rather than removed.
C25_OrderFixed ==
    /\ [](pc = "loop" =>
            /\ order = order_debts(debts_list, strategy)
            /\ Len(order) = Len(debts_list)
            /\ {order[k] : k \in 1..Len(order)} = 1..Len(debts_list))
    /\ [][(pc = "loop" /\ pc' = "loop") =>
            /\ order' = order
            /\ idx' # 0 =>
                  \A k \in 1..Len(order) :
                     k < PositionIn(order, idx') => ~Unpaid(AfterMinimum(order[k]))]_vars

\* C25's case: under Snowball the extra went to the first debt of the order although
\* the second debt, still unpaid, had the smaller balance at that point of the month
C25_Witness ==
    /\ MonthSimulated /\ StartsWithSnowball(strategy)
    /\ Len(debts) >= 2
    /\ idx = order[1] /\ extra > 0
    /\ Unpaid(debts[order[2]].balance)
    /\ debts[order[2]].balance < debts[order[1]].balance + extra

\* C26: at the end of each simulated month every debt whose balance is <= 0.005
\* after interest, minimums and the waterfall has its balance set to exactly 0, and
\* if it has no payoff month yet its payoff month is set to the current month; hence
\* a debt's payoff month is the first month at whose end its balance is <= 0.005.
C26_MarkPayoffs ==
    [][(pc = "loop" /\ pc' = "loop") =>
         \A i \in 1..Len(debts) :
            /\ AfterExtra(i) <= EPS =>
                  /\ debts'[i].balance = 0
                  /\ paid_off_month'[i] =
                        IF paid_off_month[i] = None THEN month' ELSE paid_off_month[i]
            /\ AfterExtra(i) > EPS =>
                  /\ debts'[i].balance = AfterExtra(i)
                  /\ paid_off_month'[i] = None
            /\ (month >= 1 /\ paid_off_month[i] = None) => Unpaid(debts[i].balance)]_vars

\* C26's case: a balance that is positive but at most 0.005 at the end of a month is
\* set to 0 and the month becomes the debt's payoff month, without any payment
C26_Witness ==
    /\ MonthSimulated
    /\ \E i \in 1..Len(debts) :
          /\ debts_list[i].balance > 0
          /\ payments[i] = 0
          /\ debts[i].balance = 0
          /\ paid_off_month[i] = month

\* C27: the comparison runs both strategies on the same debt list and the same
\* budget: when the chosen strategy is Snowball the second run uses Avalanche, and
\* when it is Avalanche the second run uses Snowball; the second run never uses the
\* chosen strategy again.
C27_Inv ==
    /\ hpc = "chosen" => strategy = strategy_choice
    /\ hpc \in {"other", "shown"} =>
          /\ strategy # strategy_choice
          /\ StartsWithSnowball(strategy_choice) => strategy = Avalanche
          /\ ~StartsWithSnowball(strategy_choice) => strategy = Snowball
    /\ (hpc \in {"other", "shown"} /\ pc # "call") =>
          /\ order = order_debts(debts_list, strategy)
          /\ \A i \in 1..Len(debts) : debts[i].name = debts_list[i].name
    /\ hpc = "shown" => pc = "done" /\ DOMAIN res_chosen # {} /\ DOMAIN res_other # {}

C27_BothStrategies ==
    /\ [](C27_Inv)
    /\ [][/\ debts_list' = debts_list
          /\ monthly_budget' = monthly_budget
          /\ strategy_choice' = strategy_choice
          /\ (pc = "loop" /\ pc' # "loop" /\ hpc = "chosen") =>
                hpc' = "other" /\ pc' = "call"
          /\ (pc = "call" /\ pc' = "loop") =>
                /\ debts' = debts_list
                /\ order' = order_debts(debts_list, strategy)]_vars

\* C27's case: Avalanche was chosen, the second run used Snowball, and the two runs
\* gave different results
C27_Witness ==
    /\ hpc = "shown"
    /\ ~StartsWithSnowball(strategy_choice) /\ strategy = Snowball
    /\ res_chosen # res_other

\* C28: whenever simulate returns after at least one simulated month with every
\* balance <= 0.005, every debt index has a payoff month, each payoff month lies in
\* 1..months, and months equals the largest payoff month: the run stops in the very
\* month in which the last debt is cleared.
C28_AllPaidOnReturn ==
    (/\ JustReturned
     /\ LastResult.months >= 1
     /\ \A i \in 1..Len(debts) : debts[i].balance <= EPS) =>
        /\ LastResult.months = month
        /\ \A i \in 1..Len(debts) :
              paid_off_month[i] # None /\ paid_off_month[i] \in 1..month
        /\ \E i \in 1..Len(debts) : paid_off_month[i] = month
        /\ \A nm \in DOMAIN LastResult.paid_off_months :
              LastResult.paid_off_months[nm] \in 1..LastResult.months

\* C28's case: simulate has returned with two debts paid off in different months,
\* the later of them being the returned months
C28_Witness ==
    /\ JustReturned
    /\ Len(debts) >= 2
    /\ \A i \in 1..Len(debts) : debts[i].balance <= EPS
    /\ \E i, j \in 1..Len(debts) :
          /\ paid_off_month[i] >= 1 /\ paid_off_month[i] < paid_off_month[j]
          /\ paid_off_month[j] = LastResult.months

HandlerDf(k) == IF calls[k].strategy = strategy_choice THEN df_chosen ELSE df_other
HandlerResult(k) == IF calls[k].strategy = strategy_choice THEN res_chosen ELSE res_other

\* the handler's first call has raised or has passed the validation
HandlerValidated == hpc # "chosen" \/ pc # "call"

\* C21: two independent calls of simulate, each with its own debt list, whose month
\* steps are interleaved arbitrarily (with each other and with the handler's calls)
\* produce the snapshots and the summary of the same call run one after the other,
\* which is how the handler runs it: a call reads and writes no state shared with
\* another call.
C21_Inv ==
    \A k \in DOMAIN calls :
        /\ (calls[k].pc # "call" /\ HandlerValidated) =>
              (calls[k].pc = "raised" <=> hpc = "error")
        /\ (calls[k].pc = "loop" /\ hpc = "shown") =>
              /\ calls[k].month <= Len(HandlerDf(k))
              /\ calls[k].rows = SubSeq(HandlerDf(k), 1, calls[k].month)
        /\ (calls[k].pc = "done" /\ hpc = "shown") =>
              /\ calls[k].df = HandlerDf(k)
              /\ calls[k].result = HandlerResult(k)

C21_CallsIndependent ==
    /\ [](C21_Inv)
    /\ [][/\ \A k \in DOMAIN calls :
                /\ calls'[k].debts_in = calls[k].debts_in
                /\ calls'[k].monthly_budget = calls[k].monthly_budget
                /\ calls'[k].strategy = calls[k].strategy
          /\ Cardinality({k \in DOMAIN calls : calls'[k] # calls[k]}) <= 1
          /\ calls' # calls => UNCHANGED sequentialVars]_vars

\* C21's case: both calls and the handler's comparison have returned, the two calls
\* with different snapshots of several months
C21_Witness ==
    /\ hpc = "shown"
    /\ \A k \in DOMAIN calls : calls[k].pc = "done"
    /\ calls[1].df # calls[2].df
    /\ calls[1].result.months >= 2 /\ calls[2].result.months >= 2
    /\ calls[1].df = HandlerDf(1) /\ calls[2].df = HandlerDf(2)

\* the minimum-step payment of debt i in the month just simulated, from the balance
\* before the month and the month's interest
MinimumOwed(i) ==
    IF debts[i].balance + interests'[i] > 0
    THEN Min(debts[i].min_pay, debts[i].balance + interests'[i])
    ELSE 0

\* C30: freed minimums roll over: in every month the amount available to the
\* waterfall is the monthly budget minus the sum of min(min_pay, balance) over the
\* debts that still have a positive balance, so the minimum of a paid-off debt is no
\* longer deducted and is available to the target from the following month on; and
\* the extra_rollover argument has no effect on the result.
C30_Inv ==
    \A k \in DOMAIN calls :
        (calls[k].extra_rollover = FALSE /\ calls[k].pc = "done" /\ hpc = "shown") =>
            /\ calls[k].result = HandlerResult(k)
            /\ calls[k].df = HandlerDf(k)

====
